---------------------------- MODULE Spec2Model ----------------------------
(***************************************************************************)
(* A model of draw_scene.cc: main() opens a window, builds a shader        *)
(* program, constructs nine models on the heap, loads four textures and    *)
(* then runs the frame loop (RenderScene, swap, poll) until the window is  *)
(* asked to close; it then tears the scene down and returns.               *)
(*                                                                         *)
(* Pose components (orientation, position) are kept as integers in units   *)
(* of 1/10000, so that the steps 0.001 and 0.0002 of RenderScene are the   *)
(* integers 10 and 2.  Rounding of the sums to single precision is below   *)
(* this resolution and is not modelled.  Vertex coordinates are in units   *)
(* of 1/100.  Indices into models_to_draw are 0-based as in the source.    *)
(***************************************************************************)
EXTENDS Integers, Sequences, FiniteSets, TLC

VARIABLES
  pc,              \* position of main()
  init_failure,    \* which start-up call failed ("none" while none has)
  exit_code,       \* <<>> while main runs, <<r>> once it returned r
  console,         \* messages written to std::cout / std::cerr
  glfw_up,         \* glfwInit succeeded and glfwTerminate not yet called
  window_up,       \* the window exists
  should_close,    \* the window's close flag (glfwWindowShouldClose)
  shader_create,   \* "not_called", "ok" or "failed": result of Create()
  shader_program_id, \* value of shader_program.shader_program_id()
  heap,            \* heap[p]: the Model object at address p
  locals,          \* ConstructModels' local Model* variables (0: unset)
  cm_pc,           \* next statement of ConstructModels
  models_to_draw,  \* std::vector<Model*>
  texture_id,      \* texture_id1..texture_id4 (0: not loaded)
  next_texture,    \* next name glGenTextures hands out
  rotate,          \* RenderScene's local "rotate"
  it,              \* RenderScene's iterator, as an index
  entry,           \* the heap as it was when RenderScene was entered
  trace,           \* calls made in the current loop iteration, in order
  polled,          \* the input events the last glfwPollEvents processed
  frames           \* number of RenderScene calls that returned

vars == <<pc, init_failure, exit_code, console, glfw_up, window_up,
          should_close, shader_create, shader_program_id, heap, locals,
          cm_pc, models_to_draw, texture_id, next_texture, rotate, it,
          entry, trace, polled, frames>>

-----------------------------------------------------------------------------
(* Bounds of the model. *)

\* Frames rendered before the model stops entering the loop body.
MaxFrames == 3
\* Input events one glfwPollEvents call may process.
MaxEvents == 2

-----------------------------------------------------------------------------
(* Literals of ConstructModels. *)

indices == <<0, 1, 2,  0, 2, 3,  3, 4, 2,  0, 3, 4,  1, 2, 4,  0, 1, 4>>

vertices == << <<50, 100, -50>>, <<0, 0, 0>>, <<100, 0, 0>>,
               <<100, 0, -100>>, <<0, 0, -100>> >>

vertices_ground == << <<-500, 0, 1000>>, <<500, 0, 1000>>,
                      <<-500, 0, 0>>, <<500, 0, 0>> >>

indices_ground == <<3, 1, 0,  2, 0, 3>>

vertices_sky == << <<0, 1000, 0>>, <<1000, 0, 0>>,
                   <<1000, 1000, 0>>, <<0, 0, 0>> >>

indices_sky == <<0, 2, 1,  0, 3, 1>>

vertices_rectangle == << <<0, 100, 0>>, <<0, 0, 0>>, <<10, 100, 0>>,
                         <<10, 0, 0>>, <<10, 100, -10>>, <<10, 0, -10>>,
                         <<0, 100, -10>>, <<0, 0, -10>>, <<0, 100, 0>>,
                         <<0, 0, 0>> >>

\* indices_rectangle with its seventh triangle on columns 8, 9, 10.
indices_rectangle_bad == <<0, 1, 3,  0, 3, 2,  2, 3, 5,  2, 5, 4,
                           4, 5, 7,  4, 7, 6,  8, 9, 10,  0, 7, 6>>

indices_rectangle == <<0, 1, 3,  0, 3, 2,  2, 3, 5,  2, 5, 4,
                       4, 5, 7,  4, 7, 6,  0, 1, 7,  0, 7, 6>>

\* float rightPos = 0.09;
rightPos == 900

\* wvu::ConvertDegreesToRadians, in units of 1/10000 radian.
ConvertDegreesToRadians(deg) == (deg * 31416) \div 180

\* The arguments of each "new Model(orientation, position, vertices, indices)".
\* divisor <<n, d>> stands for the matrix being divided by n/d.
ModelLiteral(var) ==
  CASE var = "pyrimid" ->
         [orientation |-> <<-3000, -3000, 0>>,
          position |-> <<-7000, -5000, -14000>>,
          vertices |-> vertices, divisor |-> <<1, 1>>, indices |-> indices]
    [] var = "ground" ->
         [orientation |-> <<-3000, -3000, 0>>,
          position |-> <<0, -26000, -80000>>,
          vertices |-> vertices_ground, divisor |-> <<1, 1>>,
          indices |-> indices_ground]
    [] var = "sky" ->
         [orientation |-> <<1000, 1000, 1000>>,
          position |-> <<-7000, -40000, -80000>>,
          vertices |-> vertices_sky, divisor |-> <<1, 1>>,
          indices |-> indices_sky]
    [] var = "cactus_1" ->
         [orientation |-> <<-3000, -3000, 0>>,
          position |-> <<-100 + rightPos, -5000, -10000>>,
          vertices |-> vertices_rectangle, divisor |-> <<1, 1>>,
          indices |-> indices_rectangle]
    [] var = "cactus_2" ->
         [orientation |-> <<-3000, -3000, ConvertDegreesToRadians(90)>>,
          position |-> <<3200 + rightPos, 600, -11000>>,
          vertices |-> vertices_rectangle, divisor |-> <<3, 2>>,
          indices |-> indices_rectangle]
    [] var = "cactus_3" ->
         [orientation |-> <<-3000, -3000, 0>>,
          position |-> <<3200 + rightPos, 600, -11000>>,
          vertices |-> vertices_rectangle, divisor |-> <<3, 1>>,
          indices |-> indices_rectangle]
    [] var = "cactus_4" ->
         [orientation |-> <<-3000, -3000, 0>>,
          position |-> <<1500 + 800 + rightPos, 600, -11000>>,
          vertices |-> vertices_rectangle, divisor |-> <<3, 1>>,
          indices |-> indices_rectangle]
    [] var = "cactus_5" ->
         [orientation |-> <<-3000, -3000, 0>>,
          position |-> <<3200 - 5000 + rightPos, 600, -13000>>,
          vertices |-> vertices_rectangle, divisor |-> <<3, 1>>,
          indices |-> indices_rectangle]
    [] var = "cactus_6" ->
         [orientation |-> <<-3000, -3000, 0>>,
          position |-> <<1500 - 4200 + rightPos, 600, -13000>>,
          vertices |-> vertices_rectangle, divisor |-> <<3, 1>>,
          indices |-> indices_rectangle]

SceneVars == {"pyrimid", "ground", "sky", "cactus_1", "cactus_2",
              "cactus_3", "cactus_4", "cactus_5", "cactus_6"}

AllVars == SceneVars

-----------------------------------------------------------------------------
(* wvu::Model: construction, GPU upload, pose accessors. *)

\* new Model(...): stores the four fields, makes no GPU call.
NewModel(var) ==
  [name |-> var,
   orientation |-> ModelLiteral(var).orientation,
   position |-> ModelLiteral(var).position,
   vertices |-> ModelLiteral(var).vertices,
   divisor |-> ModelLiteral(var).divisor,
   indices |-> ModelLiteral(var).indices,
   uploads |-> 0,
   allocated |-> TRUE]

SetVerticesIntoGpu(m) == [m EXCEPT !.uploads = @ + 1]

set_orientation(h, p, o) == [h EXCEPT ![p].orientation = o]

set_position(h, p, v) == [h EXCEPT ![p].position = v]

\* One logged call: op, the model it is made on (0: none), the texture
\* it is given (0: none).
Ev(op, model, texture) == [op |-> op, model |-> model, texture |-> texture]

Draw(tr, p, tex) == Append(tr, Ev("Draw", p, tex))

\* (*models_to_draw)[i], i counted from 0.
At(v, i) == v[i + 1]

-----------------------------------------------------------------------------
(* ConstructModels. *)

Stmt(op, var) == [op |-> op, var |-> var]

New(var) == Stmt("new", var)
Upload(var) == Stmt("SetVerticesIntoGpu", var)
Push(var) == Stmt("push_back", var)

\* The statements of ConstructModels that act on the heap or the
\* collection, in source order.
ConstructStatements ==
  << New("pyrimid"), Upload("pyrimid"), Push("pyrimid"),
     New("ground"), Upload("ground"), Push("ground"),
     New("sky"), Upload("sky"), Push("sky"),
     New("cactus_1"), New("cactus_2"), New("cactus_3"),
     New("cactus_4"), New("cactus_5"), New("cactus_6"),
     Upload("cactus_1"), Push("cactus_1"),
     Upload("cactus_2"), Push("cactus_2"),
     Upload("cactus_3"), Push("cactus_3"),
     Upload("cactus_4"), Push("cactus_4"),
     Upload("cactus_5"), Push("cactus_5"),
     Upload("cactus_6"), Push("cactus_6") >>

\* The loop at the end of ConstructModels, which the source has commented
\* out: SetVerticesIntoGpu on every element of the collection.
UploadLoop ==
  << Upload("pyrimid"), Upload("ground"), Upload("sky"),
     Upload("cactus_1"), Upload("cactus_2"), Upload("cactus_3"),
     Upload("cactus_4"), Upload("cactus_5"), Upload("cactus_6") >>

\* ConstructModels with that loop in force.
ConstructProgramWithLoop == ConstructStatements \o UploadLoop

\* ConstructModels without its last push_back.
ConstructProgramNoLastPush ==
  SubSeq(ConstructStatements, 1, Len(ConstructStatements) - 1)

ConstructProgram == ConstructStatements

\* One statement executed on st = [heap, locals, models].
Exec(st, s) ==
  CASE s.op = "new" ->
         [st EXCEPT !.heap = Append(@, NewModel(s.var)),
                    !.locals[s.var] = Len(st.heap) + 1]
    [] s.op = "SetVerticesIntoGpu" ->
         [st EXCEPT !.heap[st.locals[s.var]] = SetVerticesIntoGpu(@)]
    [] s.op = "push_back" ->
         [st EXCEPT !.models = Append(@, st.locals[s.var])]

RECURSIVE Run(_, _)
Run(prog, st) ==
  IF prog = <<>> THEN st ELSE Run(Tail(prog), Exec(st, Head(prog)))

NoLocals == [v \in AllVars |-> 0]

-----------------------------------------------------------------------------
(* Key callback and event processing. *)

NoKey == "none"

WindowClose == [kind |-> "close", key |-> NoKey, action |-> NoKey]

KeyEvent(key, action) == [kind |-> "key", key |-> key, action |-> action]

Keys == {"GLFW_KEY_ESCAPE", "GLFW_KEY_A"}

KeyActions == {"GLFW_PRESS", "GLFW_RELEASE", "GLFW_REPEAT"}

InputEvents ==
  {WindowClose} \cup {KeyEvent(k, a) : k \in Keys, a \in KeyActions}

\* KeyCallback without its test of the action.
KeyCallbackAnyAction(flag, key, action) ==
  IF key = "GLFW_KEY_ESCAPE" THEN TRUE ELSE flag

\* KeyCallback: the close flag after the callback ran with it being flag.
KeyCallback(flag, key, action) ==
  IF key = "GLFW_KEY_ESCAPE" /\ action = "GLFW_PRESS" THEN TRUE ELSE flag

\* The close flag after one event: the window system sets it on a close
\* request, a key event goes to KeyCallback.
Dispatch(flag, ev) ==
  IF ev.kind = "close" THEN TRUE ELSE KeyCallback(flag, ev.key, ev.action)

RECURSIVE ProcessEvents(_, _)
ProcessEvents(flag, evs) ==
  IF evs = <<>> THEN flag
  ELSE ProcessEvents(Dispatch(flag, Head(evs)), Tail(evs))

EventBatches == UNION {[1..n -> InputEvents] : n \in 0..MaxEvents}

-----------------------------------------------------------------------------
(* RenderScene: the body of the for loop, one "if" after the other, on     *)
(* s = [heap, trace] and the element p the iterator stands on.             *)

\* rotate[2] + 0.001
RotateZStep == 10
\* pos[0] - .0002
DriftXStep == 2
\* rot[1] + .0002
RotateYStep == 2

IfIndex2(s, p) ==
  IF p = At(models_to_draw, 2)
  THEN [heap |-> set_orientation(s.heap, p,
                   <<rotate[1], rotate[2], rotate[3] + RotateZStep>>),
        trace |-> Draw(Append(s.trace, Ev("set_orientation", p, 0)),
                       p, texture_id[2])]
  ELSE s

\* The branch for index 1 drawing with texture_id2.
IfIndex1WrongTexture(s, p) ==
  IF p = At(models_to_draw, 1)
  THEN [s EXCEPT !.trace = Draw(@, p, texture_id[2])]
  ELSE s

IfIndex1(s, p) ==
  IF p = At(models_to_draw, 1)
  THEN [s EXCEPT !.trace = Draw(@, p, texture_id[3])]
  ELSE s

\* The branch for indices 3..8 drawing before it moves the model.
IfIndex3to8DrawFirst(s, p) ==
  IF p \in {At(models_to_draw, i) : i \in 3..8}
  THEN LET pos == s.heap[p].position IN
       [heap |-> set_position(s.heap, p,
                   <<pos[1] - DriftXStep, pos[2], pos[3]>>),
        trace |-> Append(Draw(s.trace, p, texture_id[4]),
                         Ev("set_position", p, 0))]
  ELSE s

IfIndex3to8(s, p) ==
  IF p \in {At(models_to_draw, i) : i \in 3..8}
  THEN LET pos == s.heap[p].position IN
       [heap |-> set_position(s.heap, p,
                   <<pos[1] - DriftXStep, pos[2], pos[3]>>),
        trace |-> Draw(Append(s.trace, Ev("set_position", p, 0)),
                       p, texture_id[4])]
  ELSE s

\* The branch for index 0 computing from "rotate" instead of "rot".
IfIndex0FromRotate(s, p) ==
  IF p = At(models_to_draw, 0)
  THEN [heap |-> set_orientation(s.heap, p,
                   <<rotate[1], rotate[2] + RotateYStep, rotate[3]>>),
        trace |-> Draw(Append(s.trace, Ev("set_orientation", p, 0)),
                       p, texture_id[1])]
  ELSE s

IfIndex0(s, p) ==
  IF p = At(models_to_draw, 0)
  THEN LET rot == s.heap[p].orientation IN
       [heap |-> set_orientation(s.heap, p,
                   <<rot[1], rot[2] + RotateYStep, rot[3]>>),
        trace |-> Draw(Append(s.trace, Ev("set_orientation", p, 0)),
                       p, texture_id[1])]
  ELSE s

\* One pass through the loop body.
LoopBody(s, p) == IfIndex0(IfIndex3to8(IfIndex1(IfIndex2(s, p), p), p), p)

-----------------------------------------------------------------------------
(* main *)

\* main returning 0 where glewInit fails.
ReturnValueZeroOnGlew(kind) ==
  CASE kind = "glfwInit" -> -1
    [] kind = "glfwCreateWindow" -> -1
    [] kind = "glewInit" -> 0
    [] kind = "CreateShaderProgram" -> -1
    [] kind = "none" -> 0

\* The value main returns after the given start-up failure ("none": after
\* the frame loop ended).
ReturnValue(kind) ==
  CASE kind = "glfwInit" -> -1
    [] kind = "glfwCreateWindow" -> -1
    [] kind = "glewInit" -> -1
    [] kind = "CreateShaderProgram" -> -1
    [] kind = "none" -> 0

Return(kind) ==
  /\ pc' = "exited"
  /\ init_failure' = kind
  /\ exit_code' = <<ReturnValue(kind)>>

\* What shader_program.Create() returns and what shader_program_id()
\* reads afterwards.
ShaderCreateOutcomes == BOOLEAN \X {0, 1}

\* CreateShaderProgram's messages and return value for one outcome.
CreateShaderProgramLog(ok, id) ==
  (IF ~ok THEN <<"ERROR: error_info_log">> ELSE <<>>)
  \o (IF id = 0 THEN <<"ERROR: Could not create a shader program.">>
      ELSE <<>>)

CreateShaderProgramResult(ok, id) == id # 0

\* DeleteModels: what it leaves of the collection and of the heap.
DeleteModels(st) == [st EXCEPT !.models = <<>>]

Init ==
  /\ pc = "glfwInit"
  /\ init_failure = "none"
  /\ exit_code = <<>>
  /\ console = <<>>
  /\ glfw_up = FALSE
  /\ window_up = FALSE
  /\ should_close = FALSE
  /\ shader_create = "not_called"
  /\ shader_program_id = 0
  /\ heap = <<>>
  /\ locals = NoLocals
  /\ cm_pc = 1
  /\ models_to_draw = <<>>
  /\ texture_id = <<0, 0, 0, 0>>
  /\ next_texture = 1
  /\ rotate = <<0, 0, 0>>
  /\ it = 0
  /\ entry = <<>>
  /\ trace = <<>>
  /\ polled = <<>>
  /\ frames = 0

GlfwInit ==
  /\ pc = "glfwInit"
  /\ \E ok \in BOOLEAN :
       IF ok
       THEN /\ glfw_up' = TRUE
            /\ pc' = "glfwCreateWindow"
            /\ UNCHANGED <<init_failure, exit_code>>
       ELSE /\ Return("glfwInit")
            /\ UNCHANGED glfw_up
  /\ UNCHANGED <<console, window_up, should_close, shader_create,
                 shader_program_id, heap, locals, cm_pc, models_to_draw,
                 texture_id, next_texture, rotate, it, entry, trace,
                 polled, frames>>

GlfwCreateWindow ==
  /\ pc = "glfwCreateWindow"
  /\ \E ok \in BOOLEAN :
       IF ok
       THEN /\ window_up' = TRUE
            /\ pc' = "glewInit"
            /\ UNCHANGED <<init_failure, exit_code, glfw_up>>
       ELSE /\ glfw_up' = FALSE
            /\ Return("glfwCreateWindow")
            /\ UNCHANGED window_up
  /\ UNCHANGED <<console, should_close, shader_create,
                 shader_program_id, heap, locals, cm_pc, models_to_draw,
                 texture_id, next_texture, rotate, it, entry, trace,
                 polled, frames>>

GlewInit ==
  /\ pc = "glewInit"
  /\ \E ok \in BOOLEAN :
       IF ok
       THEN /\ pc' = "CreateShaderProgram"
            /\ UNCHANGED <<init_failure, exit_code, glfw_up, window_up,
                           console>>
       ELSE /\ console' = Append(console, "Glew did not initialize properly!")
            /\ glfw_up' = FALSE
            /\ window_up' = FALSE
            /\ Return("glewInit")
  /\ UNCHANGED <<should_close, shader_create,
                 shader_program_id, heap, locals, cm_pc, models_to_draw,
                 texture_id, next_texture, rotate, it, entry, trace,
                 polled, frames>>

CreateShaderProgram ==
  /\ pc = "CreateShaderProgram"
  /\ \E o \in ShaderCreateOutcomes :
       /\ shader_create' = IF o[1] THEN "ok" ELSE "failed"
       /\ shader_program_id' = o[2]
       /\ console' = console \o CreateShaderProgramLog(o[1], o[2])
       /\ IF CreateShaderProgramResult(o[1], o[2])
          THEN /\ pc' = "ConstructModels"
               /\ UNCHANGED <<init_failure, exit_code>>
          ELSE Return("CreateShaderProgram")
  /\ UNCHANGED <<glfw_up, window_up, should_close, heap, locals, cm_pc,
                 models_to_draw, texture_id, next_texture, rotate, it,
                 entry, trace, polled, frames>>

\* One statement of ConstructModels.
ConstructModels ==
  /\ pc = "ConstructModels"
  /\ cm_pc <= Len(ConstructProgram)
  /\ LET st == Exec([heap |-> heap, locals |-> locals,
                     models |-> models_to_draw], ConstructProgram[cm_pc])
     IN /\ heap' = st.heap
        /\ locals' = st.locals
        /\ models_to_draw' = st.models
  /\ cm_pc' = cm_pc + 1
  /\ pc' = IF cm_pc = Len(ConstructProgram) THEN "LoadTexture" ELSE pc
  /\ UNCHANGED <<init_failure, exit_code, console, glfw_up, window_up,
                 should_close, shader_create, shader_program_id,
                 texture_id, next_texture, rotate, it, entry, trace,
                 polled, frames>>

\* One of the four LoadTexture calls: glGenTextures hands out a new name.
LoadTexture ==
  /\ pc = "LoadTexture"
  /\ LET k == Cardinality({i \in 1..4 : texture_id[i] # 0}) + 1 IN
       /\ texture_id' = [texture_id EXCEPT ![k] = next_texture]
       /\ pc' = IF k = 4 THEN "loop" ELSE pc
  /\ next_texture' = next_texture + 1
  /\ UNCHANGED <<init_failure, exit_code, console, glfw_up, window_up,
                 should_close, shader_create, shader_program_id, heap,
                 locals, cm_pc, models_to_draw, rotate, it, entry, trace,
                 polled, frames>>

\* while (!glfwWindowShouldClose(window))
LoopTest ==
  /\ pc = "loop"
  /\ \/ /\ should_close
        /\ pc' = "DeleteModels"
        /\ UNCHANGED trace
     \/ /\ ~should_close
        /\ frames < MaxFrames
        /\ pc' = "RenderScene"
        /\ trace' = <<>>
  /\ UNCHANGED <<init_failure, exit_code, console, glfw_up, window_up,
                 should_close, shader_create, shader_program_id, heap,
                 locals, cm_pc, models_to_draw, texture_id, next_texture,
                 rotate, it, entry, polled, frames>>

\* RenderScene up to the for loop: clear, read "rotate".
RenderSceneEnter ==
  /\ pc = "RenderScene"
  /\ trace' = Append(trace, Ev("ClearTheFrameBuffer", 0, 0))
  /\ rotate' = heap[At(models_to_draw, 2)].orientation
  /\ it' = 0
  /\ entry' = heap
  /\ pc' = "RenderScene_for"
  /\ UNCHANGED <<init_failure, exit_code, console, glfw_up, window_up,
                 should_close, shader_create, shader_program_id, heap,
                 locals, cm_pc, models_to_draw, texture_id, next_texture,
                 polled, frames>>

\* One iteration of the for loop.
RenderSceneIter ==
  /\ pc = "RenderScene_for"
  /\ it < Len(models_to_draw)
  /\ LET s == LoopBody([heap |-> heap, trace |-> trace],
                       At(models_to_draw, it))
     IN /\ heap' = s.heap
        /\ trace' = s.trace
  /\ it' = it + 1
  /\ UNCHANGED <<pc, init_failure, exit_code, console, glfw_up, window_up,
                 should_close, shader_create, shader_program_id,
                 locals, cm_pc, models_to_draw, texture_id, next_texture,
                 rotate, entry, polled, frames>>

\* The for loop ends, RenderScene unbinds and returns.
RenderSceneReturn ==
  /\ pc = "RenderScene_for"
  /\ it = Len(models_to_draw)
  /\ frames' = frames + 1
  /\ pc' = "glfwSwapBuffers"
  /\ UNCHANGED <<init_failure, exit_code, console, glfw_up, window_up,
                 should_close, shader_create, shader_program_id, heap,
                 locals, cm_pc, models_to_draw, texture_id, next_texture,
                 rotate, it, entry, trace, polled>>

GlfwSwapBuffers ==
  /\ pc = "glfwSwapBuffers"
  /\ trace' = Append(trace, Ev("glfwSwapBuffers", 0, 0))
  /\ pc' = "glfwPollEvents"
  /\ UNCHANGED <<init_failure, exit_code, console, glfw_up, window_up,
                 should_close, shader_create, shader_program_id, heap,
                 locals, cm_pc, models_to_draw, texture_id, next_texture,
                 rotate, it, entry, polled, frames>>

\* glfwPollEvents processes the pending events, calling KeyCallback.
GlfwPollEvents ==
  /\ pc = "glfwPollEvents"
  /\ \E evs \in EventBatches :
       /\ polled' = evs
       /\ should_close' = ProcessEvents(should_close, evs)
  /\ trace' = Append(trace, Ev("glfwPollEvents", 0, 0))
  /\ pc' = "loop"
  /\ UNCHANGED <<init_failure, exit_code, console, glfw_up, window_up,
                 shader_create, shader_program_id, heap,
                 locals, cm_pc, models_to_draw, texture_id, next_texture,
                 rotate, it, entry, frames>>

CallDeleteModels ==
  /\ pc = "DeleteModels"
  /\ LET st == DeleteModels([heap |-> heap, models |-> models_to_draw])
     IN /\ heap' = st.heap
        /\ models_to_draw' = st.models
  /\ pc' = "glfwDestroyWindow"
  /\ UNCHANGED <<init_failure, exit_code, console, glfw_up, window_up,
                 should_close, shader_create, shader_program_id,
                 locals, cm_pc, texture_id, next_texture,
                 rotate, it, entry, trace, polled, frames>>

GlfwDestroyWindow ==
  /\ pc = "glfwDestroyWindow"
  /\ window_up' = FALSE
  /\ pc' = "glfwTerminate"
  /\ UNCHANGED <<init_failure, exit_code, console, glfw_up,
                 should_close, shader_create, shader_program_id, heap,
                 locals, cm_pc, models_to_draw, texture_id, next_texture,
                 rotate, it, entry, trace, polled, frames>>

\* glfwTerminate(); return 0;
GlfwTerminate ==
  /\ pc = "glfwTerminate"
  /\ glfw_up' = FALSE
  /\ Return("none")
  /\ UNCHANGED <<console, window_up,
                 should_close, shader_create, shader_program_id, heap,
                 locals, cm_pc, models_to_draw, texture_id, next_texture,
                 rotate, it, entry, trace, polled, frames>>

Next ==
  \/ GlfwInit
  \/ GlfwCreateWindow
  \/ GlewInit
  \/ CreateShaderProgram
  \/ ConstructModels
  \/ LoadTexture
  \/ LoopTest
  \/ RenderSceneEnter
  \/ RenderSceneIter
  \/ RenderSceneReturn
  \/ GlfwSwapBuffers
  \/ GlfwPollEvents
  \/ CallDeleteModels
  \/ GlfwDestroyWindow
  \/ GlfwTerminate

Spec == Init /\ [][Next]_vars

-----------------------------------------------------------------------------
(* Properties. *)

\* main is in the frame loop (the collection is built and not yet cleared).
InFrameLoop ==
  pc \in {"loop", "RenderScene", "RenderScene_for", "glfwSwapBuffers",
          "glfwPollEvents"}

\* The Draw calls of the current loop iteration.
DrawCalls == {k \in 1..Len(trace) : trace[k].op = "Draw"}

\* C1: when RenderScene returns on the nine-model scene, compared with the
\* poses at its entry: model 0 has its orientation's second component
\* raised by 2 (0.0002) and its position unchanged; model 1 has the pose it
\* had; model 2 has its orientation's third component raised by 10 (0.001),
\* the other two and its position unchanged; each of the models 3..8 has
\* its position's first component lowered by 2 (0.0002) and its
\* orientation unchanged.
C1_FrameEffect ==
  pc = "glfwSwapBuffers" =>
    /\ Len(models_to_draw) = 9
    /\ LET old(i) == entry[At(models_to_draw, i)]
           new(i) == heap[At(models_to_draw, i)]
       IN
       /\ new(0).orientation = <<old(0).orientation[1],
                                 old(0).orientation[2] + 2,
                                 old(0).orientation[3]>>
       /\ new(0).position = old(0).position
       /\ new(1).orientation = old(1).orientation
       /\ new(1).position = old(1).position
       /\ new(2).orientation = <<old(2).orientation[1],
                                 old(2).orientation[2],
                                 old(2).orientation[3] + 10>>
       /\ new(2).position = old(2).position
       /\ \A i \in 3..8 :
            /\ new(i).position = <<old(i).position[1] - 2,
                                   old(i).position[2],
                                   old(i).position[3]>>
            /\ new(i).orientation = old(i).orientation

\* The second frame has been rendered: the pyramid's second orientation
\* component has moved twice from its literal -0.3.
C1_Witness ==
  /\ pc = "glfwSwapBuffers"
  /\ frames = 2
  /\ heap[At(models_to_draw, 0)].orientation = <<-3000, -2996, 0>>
  /\ entry[At(models_to_draw, 0)].orientation = <<-3000, -2998, 0>>

C2_TextureSlot(i) ==
  CASE i = 0 -> 1
    [] i = 1 -> 3
    [] i = 2 -> 2
    [] i \in 3..8 -> 4

\* C2: in the frame loop every Draw call is made on a model of the
\* collection with the texture of its index (0: texture_id1, 1:
\* texture_id3, 2: texture_id2, 3..8: texture_id4), the four textures are
\* four different ones, and when RenderScene returns every index 0..8 has
\* had its Draw call.
C2_TextureByIndex ==
  InFrameLoop =>
    /\ \A a, b \in 1..4 : a # b => texture_id[a] # texture_id[b]
    /\ \A k \in DrawCalls :
         \E i \in 0..8 :
           /\ At(models_to_draw, i) = trace[k].model
           /\ trace[k].texture = texture_id[C2_TextureSlot(i)]
    /\ pc = "glfwSwapBuffers" =>
         \A i \in 0..8 :
           \E k \in DrawCalls :
             trace[k] = Ev("Draw", At(models_to_draw, i),
                           texture_id[C2_TextureSlot(i)])

\* A frame has been drawn: nine Draw calls, the ground's with texture_id3.
C2_Witness ==
  /\ pc = "glfwSwapBuffers"
  /\ Cardinality(DrawCalls) = 9
  /\ \E k \in DrawCalls :
       /\ heap[trace[k].model].name = "ground"
       /\ trace[k].texture = texture_id[3]

\* C3: no model is ever uploaded to the GPU twice; a model is uploaded
\* before it is inserted into the collection and before it is drawn; and
\* from ConstructModels' return on, every model it constructed has been
\* uploaded exactly once, for the rest of the run.
C3_UploadOnce ==
  /\ \A p \in DOMAIN heap : heap[p].uploads <= 1
  /\ \A i \in 1..Len(models_to_draw) : heap[models_to_draw[i]].uploads = 1
  /\ \A k \in DrawCalls : heap[trace[k].model].uploads = 1
  /\ pc = "LoadTexture" =>
       /\ heap # <<>>
       /\ \A p \in DOMAIN heap :
            \E i \in 1..Len(models_to_draw) : models_to_draw[i] = p
  /\ (pc \in {"LoadTexture", "DeleteModels", "glfwDestroyWindow",
              "glfwTerminate"} \/ InFrameLoop
      \/ (pc = "exited" /\ init_failure = "none")) =>
       \A p \in DOMAIN heap : heap[p].uploads = 1

\* Two frames drawn, every one of the nine models uploaded once.
C3_Witness ==
  /\ pc = "glfwSwapBuffers"
  /\ frames = 2
  /\ Len(heap) = 9
  /\ Cardinality(DrawCalls) = 9
  /\ \A p \in DOMAIN heap : heap[p].uploads = 1

\* The calls of one loop iteration as <<call, model>>.
C4_Calls == [k \in 1..Len(trace) |-> <<trace[k].op, trace[k].model>>]

C4_Model(i) ==
  LET p == At(models_to_draw, i) IN
  CASE i = 0 -> << <<"set_orientation", p>>, <<"Draw", p>> >>
    [] i = 1 -> << <<"Draw", p>> >>
    [] i = 2 -> << <<"set_orientation", p>>, <<"Draw", p>> >>
    [] i \in 3..8 -> << <<"set_position", p>>, <<"Draw", p>> >>

RECURSIVE C4_Upto(_)
C4_Upto(n) ==
  IF n = 0 THEN << <<"ClearTheFrameBuffer", 0>> >>
  ELSE C4_Upto(n - 1) \o C4_Model(n - 1)

\* C4: the calls of a loop iteration are, in this order: the clear; for
\* index 0, 1, ..., 8 in turn the model's pose update (if it has one)
\* followed by its one Draw; the buffer swap; the event poll.  At every
\* point of the iteration the calls made so far are the beginning of that
\* list up to where main stands.
C4_FrameOrder ==
  InFrameLoop =>
    CASE pc = "RenderScene" -> trace = <<>>
      [] pc = "RenderScene_for" -> C4_Calls = C4_Upto(it)
      [] pc = "glfwSwapBuffers" -> C4_Calls = C4_Upto(9)
      [] pc = "glfwPollEvents" ->
           C4_Calls = C4_Upto(9) \o << <<"glfwSwapBuffers", 0>> >>
      [] pc = "loop" ->
           IF frames = 0 THEN trace = <<>>
           ELSE C4_Calls = C4_Upto(9) \o << <<"glfwSwapBuffers", 0>>,
                                            <<"glfwPollEvents", 0>> >>

\* The second iteration is complete: 1 clear, 8 updates, 9 draws, swap, poll.
C4_Witness ==
  /\ pc = "loop"
  /\ frames = 2
  /\ Len(trace) = 20
  /\ trace[20].op = "glfwPollEvents"

\* A batch of events holds a close request: the window's close button, or
\* a press of the Escape key.
C5_CloseRequested(evs) ==
  \E k \in 1..Len(evs) :
    \/ evs[k] = WindowClose
    \/ evs[k] = KeyEvent("GLFW_KEY_ESCAPE", "GLFW_PRESS")

\* C5: the close flag is set exactly when the last poll processed a close
\* request; while it is set main is at the loop test or past the loop
\* (no further frame), and can take its next step until it has exited;
\* main is past the loop only with the flag set; and having left the loop
\* it exits with 0.
C5_ExitOnCloseRequest ==
  /\ should_close <=> C5_CloseRequested(polled)
  /\ should_close =>
       /\ pc \in {"loop", "DeleteModels", "glfwDestroyWindow",
                  "glfwTerminate", "exited"}
       /\ pc # "exited" => ENABLED Next
  /\ (pc \in {"DeleteModels", "glfwDestroyWindow", "glfwTerminate"}
      \/ (pc = "exited" /\ init_failure = "none")) => should_close
  /\ (pc = "exited" /\ init_failure = "none") => exit_code = <<0>>

\* Escape pressed during the second frame's poll; main has exited with 0.
C5_Witness ==
  /\ pc = "exited"
  /\ frames = 2
  /\ should_close
  /\ polled = <<KeyEvent("GLFW_KEY_ESCAPE", "GLFW_PRESS")>>
  /\ exit_code = <<0>>

C6_InitFailures == {"glfwInit", "glfwCreateWindow", "glewInit"}

\* C6 as stated: exit code 0 after the window was closed; after a failure
\* of window-system initialization, window creation or extension loading,
\* a non-zero code that differs from the code of the other two failures.
C6_DistinctExitCodes ==
  pc = "exited" =>
    /\ init_failure = "none" => exit_code = <<0>>
    /\ init_failure \in C6_InitFailures =>
         /\ exit_code # <<0>>
         /\ \A k \in C6_InitFailures \ {init_failure} :
              exit_code # <<ReturnValue(k)>>

\* C6 as amended: exit code 0 after the window was closed (close flag
\* set); after a failure of window-system initialization, window creation
\* or extension loading the exit code is -1, the same for all three.
C6_ExitCodes ==
  pc = "exited" =>
    /\ init_failure = "none" => (exit_code = <<0>> /\ should_close)
    /\ init_failure \in C6_InitFailures => exit_code = <<-1>>

\* Extension loading failed and main returned.
C6_Witness ==
  /\ pc = "exited"
  /\ init_failure = "glewInit"
  /\ exit_code = <<-1>>
  /\ ~glfw_up

\* C7: once shader_program.Create has returned false, a message has been
\* written, main has returned without constructing a model, and no frame
\* is rendered.
C7_AbortOnShaderFailure ==
  shader_create = "failed" =>
    /\ console # <<>>
    /\ pc = "exited"
    /\ init_failure = "CreateShaderProgram"
    /\ heap = <<>>
    /\ models_to_draw = <<>>
    /\ frames = 0

\* C8: once DeleteModels has run after the frame loop, no Model constructed
\* by ConstructModels is still allocated.
C8_ModelsDestroyed ==
  (pc \in {"glfwDestroyWindow", "glfwTerminate"}
   \/ (pc = "exited" /\ init_failure = "none")) =>
    \A p \in DOMAIN heap : ~heap[p].allocated

C9_Expected ==
  << <<"pyrimid", 5, 6>>, <<"ground", 4, 2>>, <<"sky", 4, 2>>,
     <<"cactus_1", 10, 8>>, <<"cactus_2", 10, 8>>, <<"cactus_3", 10, 8>>,
     <<"cactus_4", 10, 8>>, <<"cactus_5", 10, 8>>, <<"cactus_6", 10, 8>> >>

\* C9: every constructed model has an index list whose length is a
\* multiple of 3 and whose values are in [0, vertex count); and from
\* ConstructModels' return until teardown the collection holds nine
\* different models: pyramid, ground, sky, cactus 1..6 in this order, with
\* 5/6, 4/2, 4/2 and 10/8 vertices/triangles.
C9_SceneGeometry ==
  /\ \A p \in DOMAIN heap :
       /\ Len(heap[p].indices) % 3 = 0
       /\ \A k \in 1..Len(heap[p].indices) :
            heap[p].indices[k] \in 0..(Len(heap[p].vertices) - 1)
  /\ (pc \in {"LoadTexture", "DeleteModels"} \/ InFrameLoop) =>
       /\ Len(models_to_draw) = 9
       /\ \A i, j \in 1..9 :
            i # j => models_to_draw[i] # models_to_draw[j]
       /\ \A i \in 1..9 :
            LET m == heap[models_to_draw[i]] IN
            /\ m.name = C9_Expected[i][1]
            /\ Len(m.vertices) = C9_Expected[i][2]
            /\ Len(m.indices) = 3 * C9_Expected[i][3]

\* ConstructModels has just returned with the ninth model, cactus_6, last.
C9_Witness ==
  /\ pc = "LoadTexture"
  /\ texture_id = <<0, 0, 0, 0>>
  /\ Len(models_to_draw) = 9
  /\ heap[models_to_draw[9]].name = "cactus_6"

\* The indices at which RenderScene reads models_to_draw with operator[],
\* whatever the collection holds.
RenderSceneReads == 0..8

\* The collection as ConstructModels filled it: the addresses of its nine
\* models in the order of their push_back.
C11_Inserted ==
  << locals["pyrimid"], locals["ground"], locals["sky"],
     locals["cactus_1"], locals["cactus_2"], locals["cactus_3"],
     locals["cactus_4"], locals["cactus_5"], locals["cactus_6"] >>

\* C11: from ConstructModels' return until DeleteModels, and so whenever
\* RenderScene runs, the collection is the nine different models that
\* ConstructModels inserted, in insertion order; every index RenderScene
\* reads is below its size; and no step taken inside the frame loop
\* changes the collection, so that an index denotes the same model in
\* every frame.
C11_IndexedReadsInBounds ==
  /\ [](((pc \in {"LoadTexture", "DeleteModels"} \/ InFrameLoop) =>
          /\ models_to_draw = C11_Inserted
          /\ \A i \in RenderSceneReads :
               /\ i < Len(models_to_draw)
               /\ At(models_to_draw, i) \in DOMAIN heap
               /\ heap[At(models_to_draw, i)].allocated
          /\ \A i, j \in RenderSceneReads :
               i # j => At(models_to_draw, i) # At(models_to_draw, j)))
  /\ [][InFrameLoop => models_to_draw' = models_to_draw]_vars

\* RenderScene is running in the third frame and has passed all elements.
C11_Witness ==
  /\ pc = "RenderScene_for"
  /\ frames = 2
  /\ it = 9
  /\ Len(models_to_draw) = 9
  /\ models_to_draw = C11_Inserted

=============================================================================
